---- MODULE Spec2Model ----
(***************************************************************************)
(* ProcessFileWorkflow (process_file.py): a file is downloaded, parsed,    *)
(* classified, extracted by type and recorded in the agent data store,     *)
(* each step under ConstantDelayRetryPolicy(maximum_attempts=3, delay=10). *)
(* A slot is one caller of workflow.run(); a slot runs one file at a time, *)
(* two slots run concurrently against the same store and the same temp     *)
(* directory.                                                              *)
(***************************************************************************)
EXTENDS Integers, Sequences, FiniteSets, TLC

VARIABLES
  pc,          \* slot -> state of its current run
  attempts,    \* slot -> failed attempts of the step the run is in
  ev,          \* slot -> the event the pending step was handed
  toasts,      \* slot -> the UIToast events written to the run's stream
  error,       \* slot -> the exception workflow.run() raised
  result,      \* slot -> StopEvent.result
  raised,      \* slot -> the first exception raised inside the last failed attempt
  faults,      \* attempts that an injected fault failed, over all runs
  invocations, \* slot -> step -> times the step function was entered
  calls,       \* slot -> the storage calls the run issued, in order
  agentCalls,  \* slot -> aextract calls the run made
  startStore,  \* slot -> the store when the run started
  rpc,         \* slot -> where record_extracted_data's current attempt is
  pending,     \* slot -> delete_item calls of the attempt still in flight
  scratch,     \* slot -> .md scratch files of the run still on disk
  store,       \* the agent data collection
  nextId,      \* the number of the next item id the store assigns
  fs,          \* temp directory: path -> content
  orphans,     \* delete_item calls a failed gather left running
  runs,        \* runs started so far
  answer,      \* slot -> what the classifier answers for the run's document
  waits        \* slot -> the delays the retry policy slept, in order

vars == <<pc, attempts, ev, toasts, error, result, raised, faults, invocations,
          calls, agentCalls, startStore, rpc, pending, scratch, store, nextId,
          fs, orphans, runs, answer, waits>>

----------------------------------------------------------------------------
(* Bounds *)

MaxRuns == 2
MaxFaults == 3

(* Program constants *)

maximum_attempts == 3
delay == 10

Slots == {1, 2}

None == "None"
NoFile == "NoFile"
Truncated == "Truncated"
NoId == <<>>
NoError == [kind |-> None, attempt |-> 0]

Steps == {"download_file", "parse_document", "classify_document",
          "extract_data_based_on_type", "record_extracted_data"}

----------------------------------------------------------------------------
(* The collaborators' data *)

\* The files of the cloud file store: f1 and f2 hold the same bytes under
\* different names, f3 holds other bytes under f1's name.
FileIds == {"f1", "f2", "f3"}

FileName(fid) == IF fid = "f2" THEN "b.pdf" ELSE "a.pdf"

FileBytes(fid) == IF fid = "f3" THEN "B2" ELSE "B1"

Contents == {"B1", "B2"}

\* os.path.join(tempfile.gettempdir(), filename)
TempPath(filename) == <<"tmp", filename>>

Paths == {TempPath(FileName(f)) : f \in FileIds}

\* hashlib.sha256(file_content).hexdigest()
sha256(bytes) == <<"sha256", bytes>>

\* parse_result.aget_markdown()
Markdown(bytes) == <<"markdown", bytes>>

ItemId(n) == <<"item", n>>

KnownLabels == {"10-k", "10-q", "8-k"}
Labels == KnownLabels \cup {"unknown-form"}

\* classification_result.items[0].result: type and confidence (None when the
\* service omits it).
Answer(label, confidence) == [type |-> label, confidence |-> confidence]

Answers == {Answer("10-k", "0.92"), Answer("10-q", None), Answer("8-k", "0.0"),
            Answer("unknown-form", None)}

----------------------------------------------------------------------------
(* schemas.py *)

MySchema(document_type, k, q, e) ==
  [document_type |-> document_type, form_10k_data |-> k,
   form_10q_data |-> q, form_8k_data |-> e]

ExtractedData(data, file_id, file_name, file_hash) ==
  [data |-> data, file_id |-> file_id, file_name |-> file_name,
   file_hash |-> file_hash]

\* An item of the collection: the stored ExtractedData under the id the
\* store assigned.
Item(id, d) == [id |-> id, data |-> d]

Pre(n, bytes) ==
  Item(ItemId(n),
       ExtractedData(MySchema("8-k", None, None, "Form8KData"), "f0",
                     "old.pdf", sha256(bytes)))

InitStores == { {}, {Pre(1, "B1"), Pre(2, "B1")}, {Pre(1, "B1"), Pre(2, "B2")} }

\* untyped_search(filter={"file_hash": {"eq": h}})
untyped_search(s, h) == {x \in s : x.data.file_hash = h}

----------------------------------------------------------------------------
(* Events *)

\* The fields a step has not filled yet, each of the kind of value that
\* fills it.
NoPath == <<>>

NoMarkdown == <<>>

NoData == ExtractedData(MySchema(None, None, None, None), None, None, <<>>)

NoEvent ==
  [file_id |-> None, file_path |-> NoPath, filename |-> None,
   markdown_content |-> NoMarkdown, document_type |-> None,
   confidence |-> None, data |-> NoData]

UIToast(level, text, subject, detail) ==
  [level |-> level, message |-> <<text, subject, detail>>]

Exc(kind, r) == [kind |-> kind, attempt |-> attempts[r] + 1]

Terminal(r) == pc[r] \in {"Completed", "Failed"}

Emit(r, ts) == toasts' = [toasts EXCEPT ![r] = @ \o ts]

Enter(r, step) ==
  invocations' = [invocations EXCEPT ![r][step] = @ + 1]

\* Retry giving up one attempt early.
Retry_OffByOne(r, e) ==
  /\ attempts' = [attempts EXCEPT ![r] = @ + 1]
  /\ IF attempts[r] + 1 >= maximum_attempts - 1
       THEN /\ pc' = [pc EXCEPT ![r] = "Failed"]
            /\ error' = [error EXCEPT ![r] = e]
            /\ UNCHANGED waits
       ELSE /\ waits' = [waits EXCEPT ![r] = Append(@, delay)]
            /\ UNCHANGED <<pc, error>>

\* Retry starting the run over from download_file.
Retry_Restart(r, e) ==
  /\ attempts' = [attempts EXCEPT ![r] = @ + 1]
  /\ IF attempts[r] + 1 >= maximum_attempts
       THEN /\ pc' = [pc EXCEPT ![r] = "Failed"]
            /\ error' = [error EXCEPT ![r] = e]
            /\ UNCHANGED waits
       ELSE /\ waits' = [waits EXCEPT ![r] = Append(@, delay)]
            /\ pc' = [pc EXCEPT ![r] = "Downloading"]
            /\ UNCHANGED error

\* Retry running the step once more after maximum_attempts failures.
Retry_OneMore(r, e) ==
  /\ attempts' = [attempts EXCEPT ![r] = @ + 1]
  /\ IF attempts[r] + 1 > maximum_attempts
       THEN /\ pc' = [pc EXCEPT ![r] = "Failed"]
            /\ error' = [error EXCEPT ![r] = e]
            /\ UNCHANGED waits
       ELSE /\ waits' = [waits EXCEPT ![r] = Append(@, delay)]
            /\ UNCHANGED <<pc, error>>

\* `except Exception as e: ... raise e` under the step's retry policy: the
\* handler re-raises the exception that reached it; the policy runs the step
\* again until maximum_attempts attempts have failed, then the exception
\* ends the run; between two attempts the policy sleeps `delay`.
Reraise(e) == e

Retry(r, e) ==
  /\ attempts' = [attempts EXCEPT ![r] = @ + 1]
  /\ IF attempts[r] + 1 >= maximum_attempts
       THEN /\ pc' = [pc EXCEPT ![r] = "Failed"]
            /\ error' = [error EXCEPT ![r] = e]
            /\ UNCHANGED waits
       ELSE /\ waits' = [waits EXCEPT ![r] = Append(@, delay)]
            /\ UNCHANGED <<pc, error>>

\* A failed attempt: `first` is the exception raised first inside the try,
\* `e` the one that reached the handler.
Handle(r, first, e) ==
  /\ raised' = [raised EXCEPT ![r] = first]
  /\ Retry(r, Reraise(e))

Fault(r) ==
  /\ faults < MaxFaults
  /\ faults' = faults + 1

Advance(r, next, event) ==
  /\ pc' = [pc EXCEPT ![r] = next]
  /\ attempts' = [attempts EXCEPT ![r] = 0]
  /\ ev' = [ev EXCEPT ![r] = event]

----------------------------------------------------------------------------
Init ==
  /\ pc = [r \in Slots |-> "Idle"]
  /\ attempts = [r \in Slots |-> 0]
  /\ ev = [r \in Slots |-> NoEvent]
  /\ toasts = [r \in Slots |-> <<>>]
  /\ error = [r \in Slots |-> NoError]
  /\ result = [r \in Slots |-> NoId]
  /\ raised = [r \in Slots |-> NoError]
  /\ faults = 0
  /\ invocations = [r \in Slots |-> [s \in Steps |-> 0]]
  /\ calls = [r \in Slots |-> <<>>]
  /\ agentCalls = [r \in Slots |-> 0]
  /\ startStore = [r \in Slots |-> {}]
  /\ rpc = [r \in Slots |-> "idle"]
  /\ pending = [r \in Slots |-> {}]
  /\ scratch = [r \in Slots |-> 0]
  /\ store \in InitStores
  /\ nextId = 3
  /\ fs = [p \in Paths |-> NoFile]
  /\ orphans = {}
  /\ runs = 0
  /\ answer = [r \in Slots |-> Answer(None, None)]
  /\ waits = [r \in Slots |-> <<>>]

\* workflow.run(start_event=FileEvent(file_id=fid)) on a slot with no run in
\* progress.
StartRun(r, fid, a) ==
  /\ pc[r] \in {"Idle", "Completed", "Failed"}
  /\ runs < MaxRuns
  /\ runs' = runs + 1
  /\ pc' = [pc EXCEPT ![r] = "Started"]
  /\ attempts' = [attempts EXCEPT ![r] = 0]
  /\ ev' = [ev EXCEPT ![r] = [NoEvent EXCEPT !.file_id = fid]]
  /\ toasts' = [toasts EXCEPT ![r] = <<>>]
  /\ error' = [error EXCEPT ![r] = NoError]
  /\ result' = [result EXCEPT ![r] = NoId]
  /\ raised' = [raised EXCEPT ![r] = NoError]
  /\ invocations' = [invocations EXCEPT ![r] = [s \in Steps |-> 0]]
  /\ calls' = [calls EXCEPT ![r] = <<>>]
  /\ agentCalls' = [agentCalls EXCEPT ![r] = 0]
  /\ startStore' = [startStore EXCEPT ![r] = store]
  /\ rpc' = [rpc EXCEPT ![r] = "idle"]
  /\ pending' = [pending EXCEPT ![r] = {}]
  /\ scratch' = [scratch EXCEPT ![r] = 0]
  /\ answer' = [answer EXCEPT ![r] = a]
  /\ waits' = [waits EXCEPT ![r] = <<>>]
  /\ UNCHANGED <<faults, store, nextId, fs, orphans>>

\* run_file handing its event to parse_document.
run_file_Skip(r) ==
  /\ pc[r] = "Started"
  /\ Advance(r, "Converting", ev[r])
  /\ UNCHANGED <<toasts, error, result, raised, faults, invocations, calls,
                 agentCalls, startStore, rpc, pending, scratch, store, nextId,
                 fs, orphans, runs, answer, waits>>

\* run_file: FileEvent -> DownloadFileEvent
run_file(r) ==
  /\ pc[r] = "Started"
  /\ Advance(r, "Downloading", ev[r])
  /\ UNCHANGED <<toasts, error, result, raised, faults, invocations, calls,
                 agentCalls, startStore, rpc, pending, scratch, store, nextId,
                 fs, orphans, runs, answer, waits>>

----------------------------------------------------------------------------
(* download_file *)

DownloadOk(r) ==
  LET fid == ev[r].file_id
      filename == FileName(fid)
      file_path == TempPath(filename)
  IN /\ pc[r] = "Downloading"
     /\ Enter(r, "download_file")
     /\ Emit(r, <<UIToast("info", "Downloading file", filename, None)>>)
     /\ fs' = [fs EXCEPT ![file_path] = FileBytes(fid)]
     /\ Advance(r, "Converting",
                [ev[r] EXCEPT !.file_path = file_path, !.filename = filename])
     /\ UNCHANGED <<error, result, raised, faults, calls, agentCalls,
                    startStore, rpc, pending, scratch, store, nextId, orphans,
                    runs, answer, waits>>

\* The attempt fails at `point`: "get_file" (files.get_file or
\* files.read_file_content raises, before the toast), "connect" (client.stream
\* raises before the file is opened) or "stream" (the byte stream breaks after
\* open(file_path, "wb") truncated the file).
DownloadFail(r, point) ==
  LET fid == ev[r].file_id
      filename == FileName(fid)
      file_path == TempPath(filename)
      e == Exc("TransientIOError", r)
      info == IF point = "get_file" THEN <<>>
              ELSE <<UIToast("info", "Downloading file", filename, None)>>
  IN /\ pc[r] = "Downloading"
     /\ point \in {"get_file", "connect", "stream"}
     /\ Fault(r)
     /\ Enter(r, "download_file")
     /\ fs' = IF point = "stream" THEN [fs EXCEPT ![file_path] = Truncated]
              ELSE fs
     /\ Emit(r, info \o <<UIToast("error", "Error downloading file", fid,
                                  e.kind)>>)
     /\ Handle(r, e, e)
     /\ UNCHANGED <<ev, result, calls, agentCalls, startStore, rpc, pending,
                    scratch, store, nextId, orphans, runs, answer>>

----------------------------------------------------------------------------
(* parse_document *)

\* ParseOk announcing the classification before handing the document on.
ParseOk_Eager(r) ==
  LET filename == ev[r].filename
  IN /\ pc[r] = "Converting"
     /\ Enter(r, "parse_document")
     /\ Emit(r, <<UIToast("info", "Parsing document", filename, None),
                  UIToast("info", "Successfully parsed document", filename,
                          None),
                  UIToast("info", "Classifying document", filename, None)>>)
     /\ Advance(r, "Classifying",
                [ev[r] EXCEPT !.markdown_content = Markdown(fs[ev[r].file_path])])
     /\ UNCHANGED <<error, result, raised, faults, calls, agentCalls,
                    startStore, rpc, pending, scratch, store, nextId, fs,
                    orphans, runs, answer, waits>>

ParseOk(r) ==
  LET filename == ev[r].filename
  IN /\ pc[r] = "Converting"
     /\ Enter(r, "parse_document")
     /\ Emit(r, <<UIToast("info", "Parsing document", filename, None),
                  UIToast("info", "Successfully parsed document", filename,
                          None)>>)
     /\ Advance(r, "Classifying",
                [ev[r] EXCEPT !.markdown_content = Markdown(fs[ev[r].file_path])])
     /\ UNCHANGED <<error, result, raised, faults, calls, agentCalls,
                    startStore, rpc, pending, scratch, store, nextId, fs,
                    orphans, runs, answer, waits>>

\* ParseFail with a handler that re-raises without writing the error toast.
ParseFail_Silent(r) ==
  LET filename == ev[r].filename
      e == Exc("TransientIOError", r)
  IN /\ pc[r] = "Converting"
     /\ Fault(r)
     /\ Enter(r, "parse_document")
     /\ Emit(r, <<UIToast("info", "Parsing document", filename, None)>>)
     /\ Handle(r, e, e)
     /\ UNCHANGED <<ev, result, calls, agentCalls, startStore, rpc, pending,
                    scratch, store, nextId, fs, orphans, runs, answer>>

\* parser.aparse or parse_result.aget_markdown raises.
ParseFail(r) ==
  LET filename == ev[r].filename
      e == Exc("TransientIOError", r)
  IN /\ pc[r] = "Converting"
     /\ Fault(r)
     /\ Enter(r, "parse_document")
     /\ Emit(r, <<UIToast("info", "Parsing document", filename, None),
                  UIToast("error", "Error parsing document", filename,
                          e.kind)>>)
     /\ Handle(r, e, e)
     /\ UNCHANGED <<ev, result, calls, agentCalls, startStore, rpc, pending,
                    scratch, store, nextId, fs, orphans, runs, answer>>

----------------------------------------------------------------------------
(* classify_document *)

\* OrZero handing the service's confidence on as it came.
OrZero_Identity(confidence) == confidence

\* confidence = classification.confidence or 0.0
OrZero(confidence) == IF confidence \in {None, "0.0"} THEN "0.0" ELSE confidence

\* The classifier answers; the scratch file is written, used and unlinked.
ClassifyOk(r) ==
  LET filename == ev[r].filename
      label == answer[r].type
      confidence == OrZero(answer[r].confidence)
  IN /\ pc[r] = "Classifying"
     /\ Enter(r, "classify_document")
     /\ Emit(r, <<UIToast("info", "Classifying document", filename, None),
                  UIToast("info", "Document classified as", label,
                          confidence)>>)
     /\ Advance(r, "Extracting",
                [ev[r] EXCEPT !.document_type = label,
                              !.confidence = confidence])
     /\ UNCHANGED <<error, result, raised, faults, calls, agentCalls,
                    startStore, rpc, pending, scratch, store, nextId, fs,
                    orphans, runs, answer, waits>>

\* The attempt fails at `point`: "aclassify_file_path" (the call raises) or
\* "items" (classification_result.items[0].result cannot be unwrapped). The
\* finally clause then unlinks the scratch file: when that raises too
\* (unlinked = FALSE) the unlink's exception replaces the first one and the
\* file stays.
ClassifyFail(r, point, unlinked) ==
  LET filename == ev[r].filename
      first == IF point = "items" THEN Exc("IndexError", r)
               ELSE Exc("TransientIOError", r)
      e == IF unlinked THEN first ELSE Exc("OSError", r)
  IN /\ pc[r] = "Classifying"
     /\ point \in {"aclassify_file_path", "items"}
     /\ unlinked \in BOOLEAN
     /\ Fault(r)
     /\ Enter(r, "classify_document")
     /\ scratch' = [scratch EXCEPT ![r] = IF unlinked THEN @ ELSE @ + 1]
     /\ Emit(r, <<UIToast("info", "Classifying document", filename, None),
                  UIToast("error", "Error classifying document", filename,
                          e.kind)>>)
     /\ Handle(r, first, e)
     /\ UNCHANGED <<ev, result, calls, agentCalls, startStore, rpc, pending,
                    store, nextId, fs, orphans, runs, answer>>

\* The classifier answers, the result toast is written and the
\* FileClassifiedEvent built, and then temp_path.unlink() raises in the
\* finally clause: the attempt fails with the unlink's exception.
ClassifyUnlinkFail(r) ==
  LET filename == ev[r].filename
      label == answer[r].type
      conf == answer[r].confidence
      e == Exc("OSError", r)
  IN /\ pc[r] = "Classifying"
     /\ Fault(r)
     /\ Enter(r, "classify_document")
     /\ scratch' = [scratch EXCEPT ![r] = @ + 1]
     /\ Emit(r, <<UIToast("info", "Classifying document", filename, None),
                  UIToast("info", "Document classified as", label,
                          OrZero(conf)),
                  UIToast("error", "Error classifying document", filename,
                          e.kind)>>)
     /\ Handle(r, e, e)
     /\ UNCHANGED <<ev, result, calls, agentCalls, startStore, rpc, pending,
                    store, nextId, fs, orphans, runs, answer>>

\* NamedTemporaryFile(delete=False) creates the scratch file and tmp.write
\* raises: the `with` block closes the file and leaves it on disk, temp_path
\* is never bound and the inner try with the unlink is never entered.
ClassifyWriteFail(r) ==
  LET filename == ev[r].filename
      e == Exc("OSError", r)
  IN /\ pc[r] = "Classifying"
     /\ Fault(r)
     /\ Enter(r, "classify_document")
     /\ scratch' = [scratch EXCEPT ![r] = @ + 1]
     /\ Emit(r, <<UIToast("info", "Classifying document", filename, None),
                  UIToast("error", "Error classifying document", filename,
                          e.kind)>>)
     /\ Handle(r, e, e)
     /\ UNCHANGED <<ev, result, calls, agentCalls, startStore, rpc, pending,
                    store, nextId, fs, orphans, runs, answer>>

----------------------------------------------------------------------------
(* extract_data_based_on_type *)

\* The schema the agent of a document type is bound to (config.py).
AgentSchema(document_type) ==
  CASE document_type = "10-k" -> "Form10KData"
    [] document_type = "10-q" -> "Form10QData"
    [] document_type = "8-k" -> "Form8KData"

\* FinalData with the 10-Q data put in the 10-K slot.
FinalData_Swapped(document_type) ==
  CASE document_type = "10-k" ->
         MySchema(document_type, AgentSchema("10-k"), None, None)
    [] document_type = "10-q" ->
         MySchema(document_type, AgentSchema("10-q"), None, None)
    [] document_type = "8-k" ->
         MySchema(document_type, None, None, AgentSchema("8-k"))

\* The MySchema the branch of `document_type` builds from the validated data.
FinalData(document_type) ==
  CASE document_type = "10-k" ->
         MySchema(document_type, AgentSchema("10-k"), None, None)
    [] document_type = "10-q" ->
         MySchema(document_type, None, AgentSchema("10-q"), None)
    [] document_type = "8-k" ->
         MySchema(document_type, None, None, AgentSchema("8-k"))

\* Path(event.file_path).read_bytes(): the file download_file wrote is never
\* removed, so the read finds it.
read_bytes(path) == fs[path]

\* ExtractOk saving the extracted data itself, before the Record stage.
ExtractOk_Save(r) ==
  LET e == ev[r]
      file_hash == sha256(read_bytes(e.file_path))
      data == ExtractedData(FinalData(e.document_type), e.file_id, e.filename,
                            file_hash)
  IN /\ pc[r] = "Extracting"
     /\ e.document_type \in KnownLabels
     /\ fs[e.file_path] # NoFile
     /\ Enter(r, "extract_data_based_on_type")
     /\ agentCalls' = [agentCalls EXCEPT ![r] = @ + 1]
     /\ Emit(r, <<UIToast("info", "Extracting data from", e.document_type,
                          e.filename),
                  UIToast("info", "Successfully extracted data from",
                          e.document_type, None)>>)
     /\ store' = store \cup {Item(ItemId(nextId), data)}
     /\ nextId' = nextId + 1
     /\ Advance(r, "Recording", [e EXCEPT !.data = data])
     /\ UNCHANGED <<error, result, raised, faults, calls, startStore, rpc,
                    pending, scratch, fs, orphans, runs, answer, waits>>

ExtractOk(r) ==
  LET e == ev[r]
      file_hash == sha256(read_bytes(e.file_path))
  IN /\ pc[r] = "Extracting"
     /\ e.document_type \in KnownLabels
     /\ fs[e.file_path] # NoFile
     /\ Enter(r, "extract_data_based_on_type")
     /\ agentCalls' = [agentCalls EXCEPT ![r] = @ + 1]
     /\ Emit(r, <<UIToast("info", "Extracting data from", e.document_type,
                          e.filename),
                  UIToast("info", "Successfully extracted data from",
                          e.document_type, None)>>)
     /\ Advance(r, "Recording",
                [e EXCEPT !.data = ExtractedData(FinalData(e.document_type),
                                                  e.file_id, e.filename,
                                                  file_hash)])
     /\ UNCHANGED <<error, result, raised, faults, calls, startStore, rpc,
                    pending, scratch, store, nextId, fs, orphans, runs, answer, waits>>

\* The attempt fails at `point`: "aextract" (the agent call raises) or
\* "model_validate" (the agent's data does not fit the schema).
ExtractFail(r, point) ==
  LET e == ev[r]
      x == IF point = "aextract" THEN Exc("TransientIOError", r)
           ELSE Exc("ValidationError", r)
  IN /\ pc[r] = "Extracting"
     /\ e.document_type \in KnownLabels
     /\ fs[e.file_path] # NoFile
     /\ point \in {"aextract", "model_validate"}
     /\ Fault(r)
     /\ Enter(r, "extract_data_based_on_type")
     /\ agentCalls' = [agentCalls EXCEPT ![r] = @ + 1]
     /\ Emit(r, <<UIToast("info", "Extracting data from", e.document_type,
                          e.filename),
                  UIToast("error", "Error extracting data from file",
                          e.filename, x.kind)>>)
     /\ Handle(r, x, x)
     /\ UNCHANGED <<ev, result, calls, startStore, rpc, pending, scratch,
                    store, nextId, fs, orphans, runs, answer>>

\* The final branch taken as a default: any other type is extracted as 8-K.
ExtractUnknown_Fallback(r) ==
  LET e == ev[r]
      file_hash == sha256(read_bytes(e.file_path))
  IN /\ pc[r] = "Extracting"
     /\ e.document_type \notin KnownLabels
     /\ Enter(r, "extract_data_based_on_type")
     /\ agentCalls' = [agentCalls EXCEPT ![r] = @ + 1]
     /\ Emit(r, <<UIToast("info", "Extracting data from", e.document_type,
                          e.filename),
                  UIToast("info", "Successfully extracted data from",
                          e.document_type, None)>>)
     /\ Advance(r, "Recording",
                [e EXCEPT !.data =
                   ExtractedData(MySchema(e.document_type, None, None,
                                          AgentSchema("8-k")),
                                 e.file_id, e.filename, file_hash)])
     /\ UNCHANGED <<error, result, raised, faults, calls, startStore, rpc,
                    pending, scratch, store, nextId, fs, orphans, runs,
                    answer, waits>>

\* else: raise ValueError(f"Unknown document type: {event.document_type}")
ExtractUnknown(r) ==
  LET e == ev[r]
      x == Exc("ValueError", r)
  IN /\ pc[r] = "Extracting"
     /\ e.document_type \notin KnownLabels
     /\ fs[e.file_path] # NoFile
     /\ Enter(r, "extract_data_based_on_type")
     /\ Emit(r, <<UIToast("info", "Extracting data from", e.document_type,
                          e.filename),
                  UIToast("error", "Error extracting data from file",
                          e.filename, x.kind)>>)
     /\ Handle(r, x, x)
     /\ UNCHANGED <<ev, result, faults, calls, agentCalls, startStore, rpc,
                    pending, scratch, store, nextId, fs, orphans, runs, answer>>

----------------------------------------------------------------------------
(* record_extracted_data *)

RECURSIVE InOrder(_)
\* The delete_item calls of one gather, in the order of the items' ids.
InOrder(ids) ==
  IF ids = {} THEN <<>>
  ELSE LET id == CHOOSE i \in ids : \A j \in ids : i[2] <= j[2]
       IN <<<<"delete_item", id>>>> \o InOrder(ids \ {id})

Call(r, cs) == calls' = [calls EXCEPT ![r] = @ \o cs]

RecordedToast(r) ==
  UIToast("info", "Recorded extracted data for file", ev[r].data.file_name,
          None)

RecordErrorToast(r, e) ==
  UIToast("error", "Error recording extracted data for file",
          ev[r].data.file_name, e.kind)

\* ToDelete with the search filter left out.
ToDelete_All(s, d) == {x.id : x \in s}

\* ToDelete with only the first of the items found.
ToDelete_First(s, d) ==
  LET found == {x.id : x \in untyped_search(s, d.file_hash)}
  IN IF found = {} THEN {} ELSE {CHOOSE i \in found : \A j \in found : i[2] <= j[2]}

\* The ids the attempt deletes: those of the items untyped_search returned
\* for the run's file_hash.
ToDelete(s, d) == {x.id : x \in untyped_search(s, d.file_hash)}

\* An attempt starts: the toast, then untyped_search answers and gather fires
\* one delete_item per item found.
RecordSearchOk(r) ==
  LET ids == ToDelete(store, ev[r].data)
  IN /\ pc[r] = "Recording"
     /\ rpc[r] = "idle"
     /\ Enter(r, "record_extracted_data")
     /\ Emit(r, <<RecordedToast(r)>>)
     /\ Call(r, <<<<"untyped_search">>>> \o InOrder(ids))
     /\ pending' = [pending EXCEPT ![r] = ids]
     /\ rpc' = [rpc EXCEPT ![r] = IF ids = {} THEN "create" ELSE "deleting"]
     /\ UNCHANGED <<pc, attempts, ev, error, result, raised, faults,
                    agentCalls, startStore, scratch, store, nextId, fs,
                    orphans, runs, answer, waits>>

RecordSearchFail(r) ==
  LET e == Exc("TransientIOError", r)
  IN /\ pc[r] = "Recording"
     /\ rpc[r] = "idle"
     /\ Fault(r)
     /\ Enter(r, "record_extracted_data")
     /\ Emit(r, <<RecordedToast(r), RecordErrorToast(r, e)>>)
     /\ Call(r, <<<<"untyped_search">>>>)
     /\ Handle(r, e, e)
     /\ UNCHANGED <<ev, result, agentCalls, startStore, rpc, pending, scratch,
                    store, nextId, fs, orphans, runs, answer>>

\* What delete_item(id) leaves of the collection.
delete_item(s, id) == {x \in s : x.id # id}

\* RecordDeleteOk going on to create_item as soon as one delete_item finished.
RecordDeleteOk_FirstCompleted(r, id) ==
  /\ pc[r] = "Recording"
  /\ rpc[r] = "deleting"
  /\ id \in pending[r]
  /\ store' = delete_item(store, id)
  /\ pending' = [pending EXCEPT ![r] = @ \ {id}]
  /\ rpc' = [rpc EXCEPT ![r] = "create"]
  /\ UNCHANGED <<pc, attempts, ev, toasts, error, result, raised, faults,
                 invocations, calls, agentCalls, startStore, scratch, nextId,
                 fs, orphans, runs, answer, waits>>

\* One delete_item of the gather finishes.
RecordDeleteOk(r, id) ==
  /\ pc[r] = "Recording"
  /\ rpc[r] = "deleting"
  /\ id \in pending[r]
  /\ store' = delete_item(store, id)
  /\ pending' = [pending EXCEPT ![r] = @ \ {id}]
  /\ rpc' = [rpc EXCEPT ![r] = IF pending[r] = {id} THEN "create" ELSE @]
  /\ UNCHANGED <<pc, attempts, ev, toasts, error, result, raised, faults,
                 invocations, calls, agentCalls, startStore, scratch, nextId,
                 fs, orphans, runs, answer, waits>>

\* One delete_item raises: gather raises it into the attempt at once and
\* leaves the other delete_item calls of the gather running.
RecordDeleteFail(r, id) ==
  LET e == Exc("TransientIOError", r)
  IN /\ pc[r] = "Recording"
     /\ rpc[r] = "deleting"
     /\ id \in pending[r]
     /\ Fault(r)
     /\ orphans' = orphans \cup (pending[r] \ {id})
     /\ pending' = [pending EXCEPT ![r] = {}]
     /\ rpc' = [rpc EXCEPT ![r] = "idle"]
     /\ Emit(r, <<RecordErrorToast(r, e)>>)
     /\ Handle(r, e, e)
     /\ UNCHANGED <<ev, result, invocations, calls, agentCalls, startStore,
                    scratch, store, nextId, fs, runs, answer>>

\* What create_item(data) makes of the collection, under the next id.
create_item(s, n, data) == s \cup {Item(ItemId(n), data)}

\* RecordCreateOk with the new item saved before the past data is removed.
RecordCreateOk_DedupAfter(r) ==
  /\ pc[r] = "Recording"
  /\ rpc[r] = "create"
  /\ Call(r, <<<<"create_item">>>>)
  /\ store' = {x \in create_item(store, nextId, ev[r].data) :
                 x.data.file_hash # ev[r].data.file_hash}
  /\ nextId' = nextId + 1
  /\ result' = [result EXCEPT ![r] = ItemId(nextId)]
  /\ pc' = [pc EXCEPT ![r] = "Completed"]
  /\ rpc' = [rpc EXCEPT ![r] = "idle"]
  /\ UNCHANGED <<attempts, ev, toasts, error, raised, faults, invocations,
                 agentCalls, startStore, pending, scratch, fs, orphans, runs,
                 answer, waits>>

\* RecordCreateOk returning a StopEvent without the item's id.
RecordCreateOk_NoResult(r) ==
  /\ pc[r] = "Recording"
  /\ rpc[r] = "create"
  /\ Call(r, <<<<"create_item">>>>)
  /\ store' = create_item(store, nextId, ev[r].data)
  /\ nextId' = nextId + 1
  /\ pc' = [pc EXCEPT ![r] = "Completed"]
  /\ rpc' = [rpc EXCEPT ![r] = "idle"]
  /\ UNCHANGED <<attempts, ev, toasts, error, result, raised, faults,
                 invocations, agentCalls, startStore, pending, scratch, fs,
                 orphans, runs, answer, waits>>

RecordCreateOk(r) ==
  /\ pc[r] = "Recording"
  /\ rpc[r] = "create"
  /\ Call(r, <<<<"create_item">>>>)
  /\ store' = create_item(store, nextId, ev[r].data)
  /\ nextId' = nextId + 1
  /\ result' = [result EXCEPT ![r] = ItemId(nextId)]
  /\ pc' = [pc EXCEPT ![r] = "Completed"]
  /\ rpc' = [rpc EXCEPT ![r] = "idle"]
  /\ UNCHANGED <<attempts, ev, toasts, error, raised, faults, invocations,
                 agentCalls, startStore, pending, scratch, fs, orphans, runs, answer, waits>>

RecordCreateFail(r) ==
  LET e == Exc("TransientIOError", r)
  IN /\ pc[r] = "Recording"
     /\ rpc[r] = "create"
     /\ Fault(r)
     /\ Call(r, <<<<"create_item">>>>)
     /\ rpc' = [rpc EXCEPT ![r] = "idle"]
     /\ Emit(r, <<RecordErrorToast(r, e)>>)
     /\ Handle(r, e, e)
     /\ UNCHANGED <<ev, result, invocations, agentCalls, startStore, pending,
                    scratch, store, nextId, fs, orphans, runs, answer>>

\* A delete_item a failed gather left running finishes ...
OrphanLand(id) ==
  /\ id \in orphans
  /\ orphans' = orphans \ {id}
  /\ store' = delete_item(store, id)
  /\ UNCHANGED <<pc, attempts, ev, toasts, error, result, raised, faults,
                 invocations, calls, agentCalls, startStore, rpc, pending,
                 scratch, nextId, fs, runs, answer, waits>>

\* ... or raises, with nobody awaiting it.
OrphanDrop(id) ==
  /\ id \in orphans
  /\ orphans' = orphans \ {id}
  /\ UNCHANGED <<pc, attempts, ev, toasts, error, result, raised, faults,
                 invocations, calls, agentCalls, startStore, rpc, pending,
                 scratch, store, nextId, fs, runs, answer, waits>>

ItemIds == {ItemId(n) : n \in 1..(2 + MaxRuns)}

----------------------------------------------------------------------------
(* ctx.write_event_to_stream raising *)

StepOf(state) ==
  CASE state = "Downloading" -> "download_file"
    [] state = "Converting" -> "parse_document"
    [] state = "Classifying" -> "classify_document"
    [] state = "Extracting" -> "extract_data_based_on_type"
    [] state = "Recording" -> "record_extracted_data"

\* The text of the error toast each step's handler writes.
ErrorText(state) ==
  CASE state = "Downloading" -> "Error downloading file"
    [] state = "Converting" -> "Error parsing document"
    [] state = "Classifying" -> "Error classifying document"
    [] state = "Extracting" -> "Error extracting data from file"
    [] state = "Recording" -> "Error recording extracted data for file"

\* The first write_event_to_stream of an attempt raises. The call stands
\* inside the step's try block, so the step's handler catches the exception
\* like any other: it writes its error toast (which goes through when the
\* stream has `recovered`, and raises again when not) and the attempt fails.
EmitFail(r, recovered) ==
  LET e == Exc("EmitError", r)
      subject == IF pc[r] = "Downloading" THEN ev[r].file_id
                 ELSE ev[r].filename
  IN /\ pc[r] \in {"Downloading", "Converting", "Classifying", "Extracting",
                   "Recording"}
     /\ rpc[r] = "idle"
     /\ recovered \in BOOLEAN
     /\ Fault(r)
     /\ Enter(r, StepOf(pc[r]))
     /\ Emit(r, IF recovered
                  THEN <<UIToast("error", ErrorText(pc[r]), subject, e.kind)>>
                  ELSE <<>>)
     /\ Handle(r, e, e)
     /\ UNCHANGED <<ev, result, calls, agentCalls, startStore, rpc, pending,
                    scratch, store, nextId, fs, orphans, runs, answer>>

----------------------------------------------------------------------------
(* Specifications *)

KnownAnswers == {a \in Answers : a.type \in KnownLabels}

OkStep(r) ==
  \/ run_file(r)
  \/ DownloadOk(r)
  \/ ParseOk(r)
  \/ ClassifyOk(r)
  \/ ExtractOk(r)
  \/ RecordSearchOk(r)
  \/ \E id \in ItemIds : RecordDeleteOk(r, id)
  \/ RecordCreateOk(r)

StageFail(r) ==
  \/ \E point \in {"get_file", "connect", "stream"} : DownloadFail(r, point)
  \/ ParseFail(r)
  \/ \E point \in {"aclassify_file_path", "items"}, unlinked \in BOOLEAN :
       ClassifyFail(r, point, unlinked)
  \/ ClassifyUnlinkFail(r)
  \/ ClassifyWriteFail(r)
  \/ \E point \in {"aextract", "model_validate"} : ExtractFail(r, point)
  \/ ExtractUnknown(r)

RecordFail(r) ==
  \/ RecordSearchFail(r)
  \/ \E id \in ItemIds : RecordDeleteFail(r, id)
  \/ RecordCreateFail(r)

Orphan == \E id \in ItemIds : OrphanLand(id) \/ OrphanDrop(id)

\* One run, any fault in any step.
Next ==
  \/ \E fid \in FileIds, a \in Answers : runs = 0 /\ StartRun(1, fid, a)
  \/ OkStep(1)
  \/ StageFail(1)
  \/ RecordFail(1)
  \/ Orphan

Spec == Init /\ [][Next]_vars

\* One caller: runs follow one another on slot 1; the storage calls may fail.
NextSeq ==
  \/ \E fid \in FileIds, a \in KnownAnswers : StartRun(1, fid, a)
  \/ OkStep(1)
  \/ RecordFail(1)
  \/ Orphan

SpecSeq == Init /\ [][NextSeq]_vars

\* Two callers at once with one run each, slot 1 with f1 and slot 2 with the
\* same bytes under another id (f2) or other bytes under the same name (f3);
\* the storage calls may fail.
ConcFiles(r) == IF r = 1 THEN {"f1"} ELSE {"f2", "f3"}

NextConc ==
  \/ \E r \in Slots : \E fid \in ConcFiles(r) :
       pc[r] = "Idle" /\ StartRun(r, fid, Answer("10-k", "0.92"))
  \/ \E r \in Slots : OkStep(r)
  \/ \E r \in Slots : RecordFail(r)
  \/ Orphan

SpecConc == Init /\ [][NextConc]_vars

\* Every collaborator call succeeds; the event loop keeps running the
\* workflow while a step is pending.
NextOk ==
  \/ \E fid \in FileIds, a \in KnownAnswers : StartRun(1, fid, a)
  \/ OkStep(1)

SpecOk == Init /\ [][NextOk]_vars /\ WF_vars(OkStep(1))

\* The same file with the same collaborator answers on both slots; the
\* stream of slot 2 may raise.
SameRun(r) ==
  \A q \in Slots \ {r} :
    pc[q] # "Idle" => ev'[r].file_id = ev[q].file_id /\ answer'[r] = answer[q]

NextEmit ==
  \/ \E r \in Slots, a \in KnownAnswers :
       pc[r] = "Idle" /\ StartRun(r, "f1", a) /\ SameRun(r)
  \/ \E r \in Slots : OkStep(r)
  \/ \E recovered \in BOOLEAN : EmitFail(2, recovered)

SpecEmit == Init /\ [][NextEmit]_vars

----------------------------------------------------------------------------
(* Properties *)

Stored(h) == untyped_search(store, h)

BothCompleted(r, q) ==
  /\ r # q
  /\ pc[r] = "Completed"
  /\ pc[q] = "Completed"
  /\ FileBytes(ev[r].file_id) = FileBytes(ev[q].file_id)
  /\ ev[r].data.file_hash = ev[q].data.file_hash

\* C1 as stated: two completed runs of identical bytes, their storage calls
\* interleaved in any way, leave exactly one record with the fingerprint.
C1_ExactlyOneUnderAnyInterleaving ==
  \A r, q \in Slots :
    BothCompleted(r, q) => Cardinality(Stored(ev[r].data.file_hash)) = 1

\* C1 as amended: two completed concurrent runs of identical bytes leave at
\* least one and at most two records with the fingerprint they attached.
C1_OneOrTwoUnderAnyInterleaving ==
  \A r, q \in Slots :
    BothCompleted(r, q) => Cardinality(Stored(ev[r].data.file_hash)) \in 1..2

\* Both runs searched before either created: two records.
C1_Witness ==
  /\ BothCompleted(1, 2)
  /\ Cardinality(Stored(ev[1].data.file_hash)) = 2

C2_Post ==
  pc[1] = "Completed" =>
    /\ Stored(ev[1].data.file_hash) = {Item(result[1], ev[1].data)}
    /\ untyped_search(startStore[1], ev[1].data.file_hash) \cap store = {}

C2_Step ==
  \A x \in store \ store' :
    \/ orphans' # orphans
    \/ pc[1] = "Recording" /\ x.data.file_hash = ev[1].data.file_hash

\* C2: with runs one after another, a completed run leaves exactly one record
\* with its fingerprint, the one it created; the records stored under the
\* fingerprint before are gone, and no step of the run removes a record with
\* another fingerprint.
C2_DedupSequential == [](C2_Post) /\ [][C2_Step]_vars

\* The same bytes run again under another file id, over the first run's record.
C2_Witness ==
  /\ pc[1] = "Completed"
  /\ \E x \in startStore[1] :
       /\ x.data.file_hash = ev[1].data.file_hash
       /\ x.data.file_id \notin {"f0", ev[1].file_id}
  /\ \E x \in store : x.data.file_hash # ev[1].data.file_hash

\* C3: when every collaborator call succeeds, a started run reaches Completed
\* with the id create_item assigned as its result.
C3_EventuallyCompleted ==
  (pc[1] = "Started") ~>
    (/\ pc[1] = "Completed"
     /\ result[1] # NoId
     /\ Item(result[1], ev[1].data) \in store)

C3_Witness ==
  /\ pc[1] = "Completed"
  /\ result[1] # NoId
  /\ runs = MaxRuns

HasErrorToast(r, kind) ==
  \E i \in 1..Len(toasts[r]) :
    toasts[r][i].level = "error" /\ toasts[r][i].message[3] = kind

\* C4: once classification answered a type outside the three known ones, no
\* extraction agent is called, no storage call is made, every attempt of the
\* Extract stage raises the unknown-type ValueError with an error toast, and
\* the run ends Failed with that error after maximum_attempts attempts.
C4_UnknownTypeFails ==
  \A r \in Slots :
    ev[r].document_type \notin KnownLabels \cup {None} =>
      /\ pc[r] \in {"Extracting", "Failed"}
      /\ agentCalls[r] = 0
      /\ calls[r] = <<>>
      /\ store = startStore[r]
      /\ attempts[r] = invocations[r]["extract_data_based_on_type"]
      /\ attempts[r] > 0 =>
           raised[r].kind = "ValueError" /\ HasErrorToast(r, "ValueError")
      /\ pc[r] = "Failed" =>
           /\ error[r].kind = "ValueError"
           /\ attempts[r] = maximum_attempts

C4_Witness ==
  /\ pc[1] = "Failed"
  /\ ev[1].document_type = "unknown-form"
  /\ HasErrorToast(1, "ValueError")

Count(r, level, text) ==
  Cardinality({i \in 1..Len(toasts[r]) :
                 toasts[r][i].level = level /\ toasts[r][i].message[1] = text})

Errors(r) ==
  Cardinality({i \in 1..Len(toasts[r]) : toasts[r][i].level = "error"})

StartText(step) ==
  CASE step = "download_file" -> "Downloading file"
    [] step = "parse_document" -> "Parsing document"
    [] step = "classify_document" -> "Classifying document"
    [] step = "extract_data_based_on_type" -> "Extracting data from"
    [] step = "record_extracted_data" -> "Recorded extracted data for file"

Invoked(r) ==
  invocations[r]["download_file"] + invocations[r]["parse_document"]
    + invocations[r]["classify_document"]
    + invocations[r]["extract_data_based_on_type"]
    + invocations[r]["record_extracted_data"]

NoDuplicate(seq) ==
  \A i, j \in 1..Len(seq) : i < j => seq[i] # seq[j]

\* C5 as stated: a run that completes after transient failures has no
\* progress event of an earlier attempt twice in its stream.
C5_NoDuplicateEvents ==
  \A r \in Slots : pc[r] = "Completed" => NoDuplicate(toasts[r])

\* C5 as amended: a run fails only when a step failed maximum_attempts times;
\* a run that completes after fewer failures returns the stored item's id with
\* no error, every step ran between 1 and maximum_attempts times, every
\* attempt that reached its start toast wrote it again, every failed attempt
\* left one error toast, and the stream ends with the successful Record
\* attempt's info toast.
C5_RetriedRunCompletes ==
  \A r \in Slots :
    /\ pc[r] = "Failed" => attempts[r] = maximum_attempts
    /\ pc[r] = "Completed" =>
         /\ error[r] = NoError
         /\ Item(result[r], ev[r].data) \in store
         /\ Errors(r) = Invoked(r) - Cardinality(Steps)
         /\ \A s \in Steps :
              /\ invocations[r][s] \in 1..maximum_attempts
              /\ Count(r, "info", StartText(s)) \in 1..invocations[r][s]
              /\ s # "download_file" =>
                   Count(r, "info", StartText(s)) = invocations[r][s]
         /\ toasts[r][Len(toasts[r])] = RecordedToast(r)

\* parse_document failed twice and succeeded on the third attempt.
C5_Witness ==
  /\ pc[1] = "Completed"
  /\ invocations[1]["parse_document"] = maximum_attempts
  /\ Count(1, "info", "Parsing document") = maximum_attempts
  /\ ~NoDuplicate(toasts[1])

\* C6: a run that failed delivers the exception first raised inside the last
\* (third) attempt of the step.
C6_OriginalErrorPreserved ==
  \A r \in Slots :
    pc[r] = "Failed" =>
      error[r] = raised[r] /\ error[r].attempt = maximum_attempts

StateOf(step) ==
  CASE step = "download_file" -> "Downloading"
    [] step = "parse_document" -> "Converting"
    [] step = "classify_document" -> "Classifying"
    [] step = "extract_data_based_on_type" -> "Extracting"
    [] step = "record_extracted_data" -> "Recording"

Linear ==
  {<<"Idle", "Started">>, <<"Started", "Downloading">>,
   <<"Downloading", "Converting">>, <<"Converting", "Classifying">>,
   <<"Classifying", "Extracting">>, <<"Extracting", "Recording">>,
   <<"Recording", "Completed">>}
    \cup {<<StateOf(s), "Failed">> : s \in Steps}

C7_Step ==
  \A r \in Slots :
    /\ pc'[r] # pc[r] => <<pc[r], pc'[r]>> \in Linear
    /\ \A s \in Steps :
         invocations'[r][s] # invocations[r][s] => pc[r] = StateOf(s)
    /\ calls'[r] # calls[r] => pc[r] = "Recording"
    /\ (pc[r] # "Completed" /\ pc'[r] = "Completed") =>
         /\ rpc[r] = "create"
         /\ pending[r] = {}
         /\ result'[r] # NoId
         /\ calls'[r][Len(calls'[r])] = <<"create_item">>
    /\ pc[r] = "Failed" =>
         /\ pc'[r] = "Failed"
         /\ invocations'[r] = invocations[r]
         /\ calls'[r] = calls[r]
         /\ toasts'[r] = toasts[r]
         /\ ev'[r] = ev[r]

\* C7: a run moves only along Started, Downloading, Converting, Classifying,
\* Extracting, Recording, Completed, or from a step to Failed; a step runs
\* only in its own state; storage calls are issued only while Recording;
\* Completed is entered only by a successful create_item; a Failed run runs no
\* further step and issues no further storage call.
C7_LinearStages == [][C7_Step]_vars

\* A run that passed every earlier stage and failed in the Record stage.
C7_Witness ==
  /\ pc[1] = "Failed"
  /\ invocations[1]["record_extracted_data"] = maximum_attempts
  /\ invocations[1]["extract_data_based_on_type"] = 1

\* C8: with the same file and the same collaborator answers, the run whose
\* stream raises ends like the run whose stream does not.
C8_EmissionNeverChangesOutcome ==
  (Terminal(1) /\ Terminal(2)) =>
    (pc[1] = pc[2] /\ error[1].kind = error[2].kind)

Slot(document_type) ==
  CASE document_type = "10-k" -> "form_10k_data"
    [] document_type = "10-q" -> "form_10q_data"
    [] document_type = "8-k" -> "form_8k_data"

Populated(d) ==
  {f \in {"form_10k_data", "form_10q_data", "form_8k_data"} : d[f] # None}

\* C9: the record a successful Extract stage hands on carries the type the
\* classifier returned and has exactly the payload slot of that type
\* populated, the other two are None.
C9_OneSlotPopulated ==
  \A r \in Slots :
    invocations[r]["record_extracted_data"] > 0 \/ pc[r] = "Recording" =>
      /\ ev[r].data.data.document_type = ev[r].document_type
      /\ ev[r].document_type = answer[r].type
      /\ Populated(ev[r].data.data) = {Slot(ev[r].document_type)}

C9_Witness ==
  /\ pc[1] = "Completed"
  /\ ev[1].document_type = "10-q"
  /\ Populated(ev[1].data.data) = {"form_10q_data"}

\* C10: once a run is Completed or Failed, the file its Download stage wrote
\* is gone from the temp directory.
C10_TempFileRemoved ==
  \A r \in Slots :
    Terminal(r) => fs[TempPath(FileName(ev[r].file_id))] = NoFile

Extracted(r) ==
  pc[r] \in {"Recording", "Completed"}
    \/ invocations[r]["record_extracted_data"] > 0

\* C11: with two callers at once, the fingerprint a run attaches to its record
\* is the hash of the bytes of the file that run downloaded, also when the
\* other run's file has the same original filename.
C11_FingerprintOfOwnBytes ==
  \A r \in Slots :
    Extracted(r) => ev[r].data.file_hash = sha256(FileBytes(ev[r].file_id))

C12_Inv ==
  \A r \in Slots :
    /\ \A s \in Steps : invocations[r][s] <= maximum_attempts
    /\ attempts[r] <= maximum_attempts
    /\ \A i \in 1..Len(waits[r]) : waits[r][i] = delay
    /\ Len(waits[r]) = Errors(r) - (IF pc[r] = "Failed" THEN 1 ELSE 0)
    /\ pc[r] = "Failed" =>
         /\ attempts[r] = maximum_attempts
         /\ \E s \in Steps : invocations[r][s] = maximum_attempts

C12_Step ==
  \A r \in Slots :
    /\ attempts[r] = maximum_attempts => invocations'[r] = invocations[r]
    /\ attempts'[r] = attempts[r] + 1 =>
         \/ attempts'[r] = maximum_attempts /\ waits'[r] = waits[r]
         \/ attempts'[r] < maximum_attempts
              /\ waits'[r] = Append(waits[r], delay)

\* C12: within one run every step is entered at most maximum_attempts times;
\* after each failed attempt but the last the policy sleeps the same `delay`
\* before the next one; after the maximum_attempts-th failed attempt the run
\* is Failed and the step is not entered again.
C12_AtMostThreeAttempts == [](C12_Inv) /\ [][C12_Step]_vars

\* classify_document failed three times, with two sleeps in between.
C12_Witness ==
  /\ pc[1] = "Failed"
  /\ invocations[1]["classify_document"] = maximum_attempts
  /\ waits[1] = <<delay, delay>>

LastToast(ts) == ts[Len(ts)]

ErrorsIn(ts) == Cardinality({i \in 1..Len(ts) : ts[i].level = "error"})

C13_Inv ==
  \A r \in Slots :
    pc[r] = "Failed" =>
      /\ toasts[r] # <<>>
      /\ LastToast(toasts[r]).level = "error"
      /\ LastToast(toasts[r]).message[3] = error[r].kind
      /\ Errors(r) >= maximum_attempts

C13_Step ==
  \A r \in Slots :
    attempts'[r] = attempts[r] + 1 =>
      /\ Len(toasts'[r]) > Len(toasts[r])
      /\ LastToast(toasts'[r]).level = "error"
      /\ LastToast(toasts'[r]).message[1] = ErrorText(pc[r])
      /\ ErrorsIn(toasts'[r]) = ErrorsIn(toasts[r]) + 1
      /\ pc'[r] = "Failed" =>
           LastToast(toasts'[r]).message[3] = error'[r].kind

\* C13: every failed attempt of a step writes that step's error toast before
\* the exception leaves the step, so a run that is Failed has the error toast
\* of its failing step, naming the delivered error, as the last event of its
\* stream, one for each of the maximum_attempts failed attempts.
C13_ErrorToastBeforeFailure == [](C13_Inv) /\ [][C13_Step]_vars

\* The Extract stage failed three times on the agent's data.
C13_Witness ==
  /\ pc[1] = "Failed"
  /\ invocations[1]["extract_data_based_on_type"] = maximum_attempts
  /\ error[1].kind = "ValidationError"
  /\ Count(1, "error", "Error extracting data from file") = maximum_attempts

\* C14: an attempt of classify_document in which the classifier answered (the
\* result toast was written) completes the stage with that answer, also when
\* unlinking the scratch file raised: the run has left Classifying with the
\* classifier's type in its event, and no unlink error was raised to the
\* retry policy.
C14_UnlinkFailureNotPropagated ==
  \A r \in Slots :
    Count(r, "info", "Document classified as") > 0 =>
      /\ pc[r] # "Classifying"
      /\ ev[r].document_type = answer[r].type
      /\ invocations[r]["classify_document"] > 0 => raised[r].kind # "OSError"

\* C15: no attempt of classify_document leaves its .md scratch file behind,
\* whichever way the attempt ends, so no scratch file of the run is on disk
\* between attempts nor once the run is Completed or Failed.
C15_ScratchFileDeleted ==
  \A r \in Slots : scratch[r] = 0

IsCall(c, name) == c[1] = name

\* Where the attempt that issued the last of the calls `cs` began.
AttemptStart(cs) ==
  CHOOSE j \in 1..Len(cs) :
    /\ IsCall(cs[j], "untyped_search")
    /\ \A k \in (j + 1)..Len(cs) : ~IsCall(cs[k], "untyped_search")

\* The ids of the delete_item calls among cs[from + 1 .. Len(cs)].
DeletedSince(cs, from) ==
  {cs[k][2] : k \in {i \in (from + 1)..Len(cs) : IsCall(cs[i], "delete_item")}}

C16_Inv ==
  \A r \in Slots :
    LET cs == calls[r]
    IN \A i \in 1..Len(cs) :
         /\ i = 1 => IsCall(cs[i], "untyped_search")
         /\ (i > 1 /\ ~IsCall(cs[i], "untyped_search")) =>
              ~IsCall(cs[i - 1], "create_item")
         /\ (i > 1 /\ IsCall(cs[i], "untyped_search")) =>
              attempts[r] > 0 \/ invocations[r]["record_extracted_data"] > 1

C16_Step ==
  \A r \in Slots :
    LET cs == calls[r]
        new == SubSeq(calls'[r], Len(cs) + 1, Len(calls'[r]))
    IN /\ (new # <<>> /\ IsCall(new[1], "create_item")) =>
            /\ Len(new) = 1
            /\ rpc[r] = "create"
            /\ pending[r] = {}
            /\ cs # <<>>
            /\ \A id \in DeletedSince(cs, AttemptStart(cs)) :
                 \A x \in store : x.id # id
            /\ DeletedSince(cs, AttemptStart(cs)) =
                 {cs[k][2] : k \in (AttemptStart(cs) + 1)..Len(cs)}
       /\ (new # <<>> /\ ~IsCall(new[1], "create_item")) =>
            /\ IsCall(new[1], "untyped_search")
            /\ rpc[r] = "idle"
            /\ \A k \in 2..Len(new) : IsCall(new[k], "delete_item")
            /\ pc'[r] = "Recording" /\ rpc'[r] # "idle" =>
                 {new[k][2] : k \in 2..Len(new)} = ToDelete(store, ev[r].data)
       /\ (rpc[r] = "deleting" /\ attempts'[r] = attempts[r] + 1) =>
            /\ new = <<>>
            /\ rpc'[r] = "idle"

\* C16: in each attempt of record_extracted_data the storage calls are
\* untyped_search, then one delete_item for each item the search returned,
\* then create_item; create_item is called only when every delete_item of the
\* attempt has finished and its item is gone; when a delete_item raises the
\* attempt ends with no create_item and the next call is the next attempt's
\* untyped_search.
C16_SearchDeleteCreate == [](C16_Inv) /\ [][C16_Step]_vars

\* A delete_item raised in the first attempt; the second attempt searched
\* again, deleted and created.
C16_Witness ==
  /\ pc[1] = "Completed"
  /\ invocations[1]["record_extracted_data"] = 2
  /\ raised[1].kind = "TransientIOError"
  /\ DeletedSince(calls[1], AttemptStart(calls[1])) # {}
  /\ AttemptStart(calls[1]) > 2

\* The store a run leaves when its first Record attempt succeeds: the store
\* it found without the items of its fingerprint, plus its own item.
FirstAttemptStore(r) ==
  (startStore[r] \ untyped_search(startStore[r], ev[r].data.file_hash))
    \cup {Item(result[r], ev[r].data)}

\* C17: a run whose Record stage failed in some attempt (at the search, at a
\* delete with other deletes done or still running, or at create) and
\* succeeded in a later one leaves the store a first-attempt success would
\* have left: one item with the run's fingerprint, the new one, and every
\* item of another fingerprint as it was.
C17_RecordSafeToRetry ==
  (pc[1] = "Completed" /\ invocations[1]["record_extracted_data"] > 1) =>
    /\ store = FirstAttemptStore(1)
    /\ Stored(ev[1].data.file_hash) = {Item(result[1], ev[1].data)}

\* Two older items of the fingerprint, two failed attempts, then success.
C17_Witness ==
  /\ pc[1] = "Completed"
  /\ invocations[1]["record_extracted_data"] = maximum_attempts
  /\ Cardinality(untyped_search(startStore[1], ev[1].data.file_hash)) = 2
  /\ orphans = {}

Rank(state) ==
  CASE state = "Idle" -> 0
    [] state = "Started" -> 1
    [] state = "Downloading" -> 2
    [] state = "Converting" -> 3
    [] state = "Classifying" -> 4
    [] state = "Extracting" -> 5
    [] state = "Recording" -> 6
    [] state = "Completed" -> 7
    [] state = "Failed" -> 7

C18_Step ==
  \A r \in Slots :
    pc[r] \notin {"Idle", "Completed", "Failed"} =>
      /\ Rank(pc'[r]) >= Rank(pc[r])
      /\ attempts'[r] = attempts[r] + 1 =>
           /\ ev'[r] = ev[r]
           /\ pc'[r] \in {pc[r], "Failed"}
      /\ \A s \in Steps :
           invocations'[r][s] # invocations[r][s] =>
             /\ pc[r] = StateOf(s)
             /\ \A t \in Steps :
                  Rank(StateOf(t)) > Rank(StateOf(s)) => invocations[r][t] = 0
             /\ \A t \in Steps :
                  Rank(StateOf(t)) < Rank(StateOf(s)) =>
                    invocations'[r][t] = invocations[r][t]
      /\ (pc'[r] # pc[r] /\ pc'[r] # "Failed") =>
           Rank(pc'[r]) = Rank(pc[r]) + 1

\* C18: a failed attempt leaves the run in the same step with the same input
\* event (or Failed); a step is entered only in its own state and only while
\* no later step has run, the earlier steps' invocation counts standing; the
\* run moves on by one stage at each success, so no step succeeds twice.
C18_RetryLocalToStage == [][C18_Step]_vars

\* Parse and Extract were each retried, Download and Classify ran once.
C18_Witness ==
  /\ pc[1] = "Completed"
  /\ invocations[1]["download_file"] = 1
  /\ invocations[1]["parse_document"] = 2
  /\ invocations[1]["classify_document"] = 1
  /\ invocations[1]["extract_data_based_on_type"] = 2

\* The stage a toast belongs to, by its text, as the rank of the stage's state.
StageIndex(toast) ==
  LET text == toast.message[1]
  IN CASE text \in {"Downloading file", "Error downloading file"} ->
            Rank("Downloading")
       [] text \in {"Parsing document", "Successfully parsed document",
                    "Error parsing document"} -> Rank("Converting")
       [] text \in {"Classifying document", "Document classified as",
                    "Error classifying document"} -> Rank("Classifying")
       [] text \in {"Extracting data from", "Successfully extracted data from",
                    "Error extracting data from file"} -> Rank("Extracting")
       [] text \in {"Recorded extracted data for file",
                    "Error recording extracted data for file"} ->
            Rank("Recording")

C19_Inv ==
  \A r \in Slots :
    /\ \A i, j \in 1..Len(toasts[r]) :
         i < j => StageIndex(toasts[r][i]) <= StageIndex(toasts[r][j])
    /\ \A i \in 1..Len(toasts[r]) : StageIndex(toasts[r][i]) <= Rank(pc[r])

C19_Step ==
  \A r \in Slots :
    (pc[r] \notin {"Idle", "Completed", "Failed"}
       /\ Len(toasts'[r]) > Len(toasts[r])) =>
      /\ SubSeq(toasts'[r], 1, Len(toasts[r])) = toasts[r]
      /\ \A i \in (Len(toasts[r]) + 1)..Len(toasts'[r]) :
           StageIndex(toasts'[r][i]) = Rank(pc[r])

\* C19: the toasts of a run's stream are in non-decreasing order of stage;
\* a toast is written only by the step the run is in, so none of a later
\* stage comes before the stage before it has completed and none of an
\* earlier stage comes after, retries included.
C19_ToastsInStageOrder == [](C19_Inv) /\ [][C19_Step]_vars

\* A run that retried in two stages and completed.
C19_Witness ==
  /\ pc[1] = "Completed"
  /\ Count(1, "error", "Error downloading file") = 1
  /\ Count(1, "error", "Error recording extracted data for file") = 2
  /\ Len(toasts[1]) >= 12

\* C20: the FileClassifiedEvent classify_document returns carries the
\* classifier's confidence when it gave one and 0.0 when it gave none, never
\* None; the result toast shows the same value.
C20_ConfidenceNeverNull ==
  \A r \in Slots :
    ev[r].document_type # None =>
      /\ ev[r].confidence # None
      /\ ev[r].confidence =
           (IF answer[r].confidence = None THEN "0.0" ELSE answer[r].confidence)
      /\ \A i \in 1..Len(toasts[r]) :
           toasts[r][i].message[1] = "Document classified as" =>
             toasts[r][i].message[3] = ev[r].confidence

\* The classifier gave no confidence and the event carries 0.0.
C20_Witness ==
  /\ pc[1] = "Extracting"
  /\ answer[1].confidence = None
  /\ ev[1].document_type = "10-q"
  /\ ev[1].confidence = "0.0"

BeforeRecord(r) ==
  pc[r] # "Idle" /\ invocations[r]["record_extracted_data"] = 0

C21_Inv ==
  \A r \in Slots :
    BeforeRecord(r) =>
      /\ calls[r] = <<>>
      /\ pending[r] = {}
      /\ orphans = {}
      /\ store = startStore[r]

C21_Step ==
  \A r \in Slots :
    (BeforeRecord(r) /\ invocations'[r]["record_extracted_data"] = 0) =>
      /\ store' = store
      /\ nextId' = nextId
      /\ calls'[r] = calls[r]

\* C21: while a run has not entered record_extracted_data it has issued no
\* untyped_search, delete_item or create_item and no step of it changes the
\* collection, so a run that is Failed in Download, Convert, Classify or
\* Extract leaves the store as it was when the run started.
C21_NoStorageBeforeRecord == [](C21_Inv) /\ [][C21_Step]_vars

\* The Extract stage failed three times over a store that held items.
C21_Witness ==
  /\ pc[1] = "Failed"
  /\ invocations[1]["extract_data_based_on_type"] = maximum_attempts
  /\ invocations[1]["record_extracted_data"] = 0
  /\ startStore[1] # {}
  /\ store = startStore[1]

\* C22: a run that is Failed leaves at least as many items with its
\* fingerprint as the store held when the run started, also when its Record
\* stage deleted the older items and create_item then raised on every attempt.
C22_FailedRunKeepsRecords ==
  \A r \in Slots :
    (pc[r] = "Failed" /\ invocations[r]["record_extracted_data"] > 0) =>
      Cardinality(Stored(ev[r].data.file_hash)) >=
        Cardinality(untyped_search(startStore[r], ev[r].data.file_hash))

====
